---- MODULE Spec2Model ----
(***************************************************************************)
(* A model of the SolarEdge REST binding: the module-level RESTClient      *)
(* instance `Solaredge` (arguments + parameters), the SolaredgeClient      *)
(* sessions that use it, the request builder _call_api / _rest_request,    *)
(* the record decoder baseclass.__post_init__, the response classes of     *)
(* const.py, and the threads that call one client side by side.            *)
(***************************************************************************)
EXTENDS Integers, Sequences, FiniteSets, TLC

VARIABLES
    today,      \* the day datetime.now() falls on
    Solaredge,  \* the RESTClient instance of const.py: [arguments, parameters]
    session,    \* the SolaredgeClient objects: [state, sites, inventories]
    last,       \* the call the caller has just made and what it did
    raw,        \* decoder: the keyword arguments or body a record is built from
    result,     \* decoder: what building the record gave
    again,      \* decoder: what building it again from the same value gave
    callers     \* the threads that call accessors of one client side by side

vars == <<today, Solaredge, session, last, raw, result, again, callers>>

---------------------------------------------------------------------------
(* Python values.  Every value is a record tagged with its kind, so that   *)
(* a None, a str and an int can sit in the same field.                     *)

None == [k |-> "None"]
PyStr(s) == [k |-> "str", s |-> s]
PyInt(i) == [k |-> "int", i |-> i]
\* strftime('%Y-%m-%d') of day d
DateStr(d) == [k |-> "str", day |-> d, clock |-> "-"]
\* strftime('%Y-%m-%d <clock>') of day d
DateTimeStr(d, c) == [k |-> "str", day |-> d, clock |-> c]

\* f"{value}": the text an f-string or str.format puts for a value
Fmt(v) ==
    CASE v.k = "None" -> PyStr("None")
      [] v.k = "int" -> PyStr(ToString(v.i))
      [] OTHER -> v

Range(f) == {f[i] : i \in DOMAIN f}

---------------------------------------------------------------------------
(* Bounds and input sets.                                                  *)

\* the model stops the clock after this many days past the load day
MaxDay == 1
\* the longest site list the server answers with
MaxSites == 2

Sessions == {1, 2}
SiteIds == {PyStr("1"), PyStr("2")}
Serials == {PyStr("SN1"), PyStr("SN2")}
\* apikey arguments given to SolaredgeClient(...)
ApiKeys == {None, PyStr(""), PyStr("k1"), PyStr("k2")}
\* (start, end) arguments given to set_dates / set_datetimes
DayArgs == {<<1, 0>>, <<3, 1>>}
\* unit arguments given to set_time_unit
Units == {PyStr("HOUR"), PyStr("DAY")}

---------------------------------------------------------------------------
(* const.py: the arguments, the parameters and their defaults.             *)

\* the day const.py was imported: the class-level defaults are computed then
LoadDay == 0

APIArguments == [siteid |-> None, serialnumber |-> None]

APIParameters ==
    [size |-> PyInt(100),
     startIndex |-> PyInt(0),
     searchText |-> None,
     sortProperty |-> None,
     sortOrder |-> PyStr("ASC"),
     Status |-> PyStr("All"),
     api_key |-> None,
     startDate |-> DateStr(LoadDay - 1),
     endDate |-> DateStr(LoadDay),
     startTime |-> DateTimeStr(LoadDay - 1, "%H:%M:%S"),
     endTime |-> DateTimeStr(LoadDay, "%H:%M:%S"),
     timeUnit |-> PyStr("HOUR"),
     meters |-> None,
     serials |-> None,
     systemUnits |-> PyStr("Metric")]

RESTClient ==
    [url |-> "https://monitoringapi.solaredge.com",
     arguments |-> APIArguments,
     parameters |-> APIParameters]

---------------------------------------------------------------------------
(* const.py: the endpoints.  A template is the sequence of its path        *)
(* segments; a segment in braces is a placeholder.                         *)

Endpoint(name, endpoint, arguments, parms, response) ==
    [name |-> name, endpoint |-> endpoint, arguments |-> arguments,
     parms |-> parms, response |-> response]

APIList ==
    [Sites |-> Endpoint("Site List", <<"sites", "list">>, <<>>,
        <<"api_key", "size", "startIndex", "searchText", "sortProperty",
          "sortOrder", "Status">>, "SitesResponse"),
     SiteInfo |-> Endpoint("Site Details", <<"site", "{siteid}", "details">>,
        <<"siteid">>, <<"api_key">>, "SiteInfoResponse"),
     SiteBenefits |-> Endpoint("Site Environmental Benefits",
        <<"site", "{siteid}", "envBenefits">>,
        <<"siteid">>, <<"api_key">>, "EnvBenefitsResponse"),
     SiteImage |-> Endpoint("Site Image",
        <<"site", "{siteid}", "siteimage", "{name}">>,
        <<"siteid">>, <<"api_key">>, "str"),
     SiteOverview |-> Endpoint("Site Overview",
        <<"site", "{siteid}", "overview">>,
        <<"siteid">>, <<"api_key">>, "OverviewResponse"),
     SiteDataPeriod |-> Endpoint("Site Data: Start and End Dates",
        <<"site", "{siteid}", "dataPeriod">>,
        <<"siteid">>, <<"api_key">>, "SiteDataPeriodResponse"),
     SiteEnergy |-> Endpoint("Site Energy", <<"site", "{siteid}", "energy">>,
        <<"siteid">>, <<"api_key", "startDate", "endDate", "timeUnit">>,
        "EnergyDataResponse"),
     SiteEnergyTimeframe |-> Endpoint("Site Energy - Time Period",
        <<"site", "{siteid}", "timeFrameEnergy">>,
        <<"siteid">>, <<"api_key", "startDate", "endDate">>,
        "TimeFrameEnergyResponse"),
     EnergyDetails |-> Endpoint("None",
        <<"site", "{siteid}", "energyDetails">>,
        <<"siteid">>,
        <<"api_key", "startTime", "endTime", "timeUnit", "meters">>,
        "EnergyDetailResponse"),
     Power |-> Endpoint("None", <<"site", "{siteid}", "power">>,
        <<"siteid">>, <<"api_key", "startTime", "endTime">>,
        "PowerDataResponse"),
     PowerDetails |-> Endpoint("None", <<"site", "{siteid}", "powerDetails">>,
        <<"siteid">>, <<"api_key", "startTime", "endTime", "meters">>,
        "PowerDetailsResponse"),
     PowerFlow |-> Endpoint("Site Power Flow",
        <<"site", "{siteid}", "currentPowerFlow">>,
        <<"siteid">>, <<"api_key">>, "PowerFlowResponse"),
     Storage |-> Endpoint("Battery Telemetry",
        <<"site", "{siteid}", "storageData">>,
        <<"siteid">>, <<"api_key", "startTime", "endTime", "serials">>,
        "StorageDataResponse"),
     Inventory |-> Endpoint("Site Inventory",
        <<"site", "{siteid}", "inventory">>,
        <<"siteid">>, <<"api_key">>, "InventoryResponse"),
     Components |-> Endpoint("Site Components",
        <<"equipment", "{siteid}", "list">>,
        <<"siteid">>, <<"api_key">>, "ComponentsResponse"),
     InverterData |-> Endpoint("Inverter Technical Data",
        <<"equipment", "{siteid}", "{serialnumber}", "data">>,
        <<"siteid", "serialnumber">>,
        <<"api_key", "startTime", "endTime">>, "InverterResponse"),
     CurrentVersion |-> Endpoint("Current Version", <<"version", "current">>,
        <<>>, <<"api_key">>, "VersionResponse"),
     SupportedVersions |-> Endpoint("Supported Vesions",
        <<"version", "supported">>,
        <<>>, <<"api_key">>, "VersionsResponse")]

---------------------------------------------------------------------------
(* The HTTP transport (requests.Session.get) as the client sees it: the    *)
(* status class of the response, or the exception get raises, and the kind *)
(* of body.  "3xx" stands for every status below 400 other than 200 that   *)
(* requests hands back; "vendor" is a JSON object of the endpoint's        *)
(* documented shape, "other" a JSON object of another shape.               *)

Response(status, body) == [status |-> status, body |-> body]

Responses ==
    {Response("200", "vendor"), Response("200", "other"),
     Response("3xx", "vendor"), Response("3xx", "notjson"),
     Response("5xx", "notjson"),
     Response("ConnectionError", "-"), Response("Timeout", "-")}

NoResponse == Response("-", "-")

---------------------------------------------------------------------------
(* api.py: _call_api and _rest_request.                                    *)

Placeholders == {"{siteid}", "{serialnumber}", "{name}"}

PlaceholderName(seg) ==
    CASE seg = "{siteid}" -> "siteid"
      [] seg = "{serialnumber}" -> "serialnumber"
      [] seg = "{name}" -> "name"

\* the dictionary of the arguments the endpoint declares
argumentlist(api, store) ==
    [a \in Range(api.arguments) |-> store.arguments[a]]

\* api.endpoint.format(**argumentlist) raises KeyError for a placeholder
\* that is no key of argumentlist
FormatKeyError(api) ==
    \E i \in DOMAIN api.endpoint :
        /\ api.endpoint[i] \in Placeholders
        /\ PlaceholderName(api.endpoint[i]) \notin Range(api.arguments)

\* api.endpoint.format(**argumentlist)
FormatEndpoint(api, args) ==
    [i \in DOMAIN api.endpoint |->
        IF api.endpoint[i] \in Placeholders
        THEN Fmt(args[PlaceholderName(api.endpoint[i])]).s
        ELSE api.endpoint[i]]

\* a builder that sends every parameter of the endpoint
AlwaysDefined(value) == TRUE

\* getattr(self._api.parameters, entry.value) is not None
IsDefined(value) == value # None

\* "?" opens the parameter string, "&" joins the rest
Separator(parm_string) == IF parm_string = <<>> THEN "?" ELSE "&"

\* the loop over api.parms: one piece per parameter with a defined value
RECURSIVE ParmString(_, _, _)
ParmString(parms, parameters, parm_string) ==
    IF parms = <<>> THEN parm_string
    ELSE LET entry == Head(parms)
             value == parameters[entry]
             piece == [sep |-> Separator(parm_string), name |-> entry,
                       value |-> Fmt(value)]
         IN  ParmString(Tail(parms), parameters,
                        IF IsDefined(value)
                        THEN Append(parm_string, piece)
                        ELSE parm_string)

Url(base, path, parms) == [base |-> base, path |-> path, parms |-> parms]

NoUrl == Url("", <<>>, <<>>)

\* "{}/{}/{}".format(self._api.url, api.endpoint.format(...), parm_string)
BuildUrl(api, store) ==
    Url(store.url,
        FormatEndpoint(api, argumentlist(api, store)),
        ParmString(api.parms, store.parameters, <<>>))

\* statuses for which Response.raise_for_status raises HTTPError
RaisesForStatus(status) == status \in {"4xx", "5xx"}

\* _rest_request: the exception it raises ("" for none) and the JSON it returns
_rest_request(resp) ==
    CASE resp.status \in {"ConnectionError", "Timeout"} ->
            [raised |-> "SystemExit", json |-> "-"]
      [] RaisesForStatus(resp.status) ->
            [raised |-> "SystemExit", json |-> "-"]
      [] resp.body = "notjson" ->
            [raised |-> "JSONDecodeError", json |-> "-"]
      [] OTHER ->
            [raised |-> "", json |-> resp.body]

\* response classes whose __post_init__ raises TypeError on a body of the
\* vendor's shape: SiteInfo names an Endpoint by the time it is called,
\* SummaryData names the session cache class, PowerFlowResponse builds itself
BrokenResponses ==
    {"SiteInfoResponse", "OverviewResponse", "PowerFlowResponse"}

\* api.response(**json): what the constructor of the response class does
ResponseOutcome(response, json) ==
    IF json = "vendor" /\ response \notin BrokenResponses
    THEN "returned" ELSE "TypeError"

\* the arguments the endpoint declares whose stored value is None
MissingArguments(api, store) ==
    {a \in Range(api.arguments) : store.arguments[a] = None}

\* requests: the URLs requested, in the order of the requests
CallResult(n, url, resp, outcome, decoded, missing) ==
    [gets |-> n, url |-> url, resp |-> resp, outcome |-> outcome,
     decoded |-> decoded, missing |-> missing,
     requests |-> IF n = 0 THEN <<>> ELSE <<url>>]

\* _call_api on the store as it is when the call is made
_call_api(api, store, resp) ==
    IF FormatKeyError(api)
    THEN CallResult(0, NoUrl, NoResponse, "KeyError", FALSE,
                    MissingArguments(api, store))
    ELSE LET url == BuildUrl(api, store)
             rr == _rest_request(resp)
         IN  IF rr.raised # ""
             THEN CallResult(1, url, resp, rr.raised, FALSE,
                             MissingArguments(api, store))
             ELSE CallResult(1, url, resp,
                             ResponseOutcome(api.response, rr.json), TRUE,
                             MissingArguments(api, store))

---------------------------------------------------------------------------
(* api.py: the SolaredgeClient object.  state is "Uninitialized" until     *)
(* __init__ has returned, "Ready" from then on, and "Closed" once          *)
(* self._session.close() has been called.                                  *)

\* transport is self._session: "none" before requests.Session() is called,
\* then "open" until self._session.close()
NoClient ==
    [state |-> "Uninitialized", transport |-> "none", sites |-> <<>>,
     inventories |-> <<>>]

\* what the last call was and what it did; day is the day it was made on
Last(s, op, arg, r) ==
    [session |-> s, op |-> op, arg |-> arg, day |-> today, gets |-> r.gets,
     url |-> r.url, resp |-> r.resp, outcome |-> r.outcome,
     decoded |-> r.decoded, missing |-> r.missing,
     requests |-> r.requests]

\* no call is under way
NoLast ==
    [session |-> 0, op |-> "idle", arg |-> None, day |-> LoadDay, gets |-> 0,
     url |-> NoUrl, resp |-> NoResponse, outcome |-> "returned",
     decoded |-> FALSE, missing |-> {}, requests |-> <<>>]

\* the caller makes one call at a time: the result of the previous one has
\* been taken
Idle == last.op = "idle"

\* the caller takes the result of its call (the value or the exception)
Return ==
    /\ ~Idle
    /\ last' = NoLast
    /\ UNCHANGED <<today, Solaredge, session, raw, result, again, callers>>

\* a call that makes no request
NoCall(outcome) == CallResult(0, NoUrl, NoResponse, outcome, FALSE, {})

\* the methods of an object can be called once it has been constructed
Callable(s) == Idle /\ session[s].state \in {"Ready", "Closed"}

\* what the server answers to the requests of one construction: the ids of
\* the site list, and for each of these sites the serials of its inverters
Discovery(sites, inverters) == [sites |-> sites, inverters |-> inverters]

Discoveries ==
    {Discovery(<<>>, <<>>),
     Discovery(<<PyStr("1")>>, << <<>> >>),
     Discovery(<<PyStr("1")>>, << <<PyStr("SN1")>> >>),
     Discovery(<<PyStr("1"), PyStr("2")>>,
               << <<PyStr("SN1"), PyStr("SN2")>>, <<>> >>),
     Discovery(<<PyStr("2"), PyStr("1")>>,
               << <<PyStr("SN2")>>, <<PyStr("SN1")>> >>)}

\* [item.SN for list in [data.inverters for data in inventories] for item in list]
RECURSIVE Flatten(_)
Flatten(lists) ==
    IF lists = <<>> THEN <<>> ELSE Head(lists) \o Flatten(Tail(lists))

site_list(s) == session[s].sites

inverter_list(s) ==
    Flatten([i \in DOMAIN session[s].inventories |->
                session[s].inventories[i].inverters])

\* a loop that keeps the first site it reaches
FirstSiteid(sites, reached, old) ==
    IF reached = 0 THEN old ELSE sites[1]

\* the loop over the sites assigns siteid for every site it reaches
LoopSiteid(sites, reached, old) ==
    IF reached = 0 THEN old ELSE sites[reached]

\* the loop over the inventories assigns serialnumber for every inverter
LoopSerial(inverters, old) ==
    IF inverters = <<>> THEN old ELSE inverters[Len(inverters)]

\* a construction that asks for the inventories from the last site to the
\* first
ReversedRequests(keyed, sites, n) ==
    [i \in 1..n |->
        IF i = 1 THEN BuildUrl(APIList.Sites, keyed)
        ELSE BuildUrl(APIList.Inventory,
                      [keyed EXCEPT !.arguments.siteid =
                                       sites[Len(sites) + 2 - i]])]

\* the requests of a construction that makes n of them: get_sites, then
\* get_site_inventory(site.id) for the sites in the order of the site list,
\* each built from the store as it is when the request is made
InitRequests(keyed, sites, n) ==
    [i \in 1..n |->
        IF i = 1 THEN BuildUrl(APIList.Sites, keyed)
        ELSE BuildUrl(APIList.Inventory,
                      [keyed EXCEPT !.arguments.siteid = sites[i - 1]])]

\* assert apikey is not None
KeyAccepted(apikey) == apikey # None

\* SolaredgeClient(apikey), the server answering d; the f-th request of the
\* construction ends in SystemExit (f = 0: none does)
__init__(s, apikey, d, f) ==
    /\ Idle
    /\ session[s].state = "Uninitialized"
    /\ f \in 0..(1 + Len(d.sites))
    /\ IF ~KeyAccepted(apikey)
       THEN /\ f = 0
            /\ last' = Last(s, "__init__", apikey, NoCall("AssertionError"))
            /\ UNCHANGED <<today, Solaredge, session, raw, result, again, callers>>
       ELSE LET n == IF f = 0 THEN 1 + Len(d.sites) ELSE f
                reached == n - 1
                keyed == [Solaredge EXCEPT !.parameters.api_key = apikey]
                sited == [keyed EXCEPT !.arguments.siteid =
                             LoopSiteid(d.sites, reached, @)]
                done == [sited EXCEPT !.arguments.serialnumber =
                             LoopSerial(Flatten(d.inverters), @)]
                urls == InitRequests(keyed, d.sites, n)
            IN  /\ Solaredge' = IF f = 0 THEN done ELSE sited
                /\ session' = IF f # 0
                              THEN [session EXCEPT ![s].transport = "open"]
                              ELSE [session EXCEPT ![s] =
                                  [state |-> "Ready",
                                   transport |-> "open",
                                   sites |-> d.sites,
                                   inventories |->
                                      [i \in DOMAIN d.sites |->
                                          [site |-> d.sites[i],
                                           inverters |-> d.inverters[i]]]]]
                /\ last' = Last(s, "__init__", apikey,
                       [CallResult(n, urls[n],
                           IF f = 0 THEN Response("200", "vendor")
                                    ELSE Response("5xx", "notjson"),
                           IF f = 0 THEN "returned" ELSE "SystemExit",
                           f = 0 \/ f > 1, {})
                        EXCEPT !.requests = urls])
                /\ UNCHANGED <<today, raw, result, again, callers>>

\* __exit__ and close: self._session.close()
CloseSession(s, op) ==
    /\ Callable(s)
    /\ session' = [session EXCEPT ![s].state = "Closed",
                                  ![s].transport = "closed"]
    /\ last' = Last(s, op, None, NoCall("returned"))
    /\ UNCHANGED <<today, Solaredge, raw, result, again, callers>>

__exit__(s) == CloseSession(s, "__exit__")

close(s) == CloseSession(s, "close")

\* a setter: it assigns parameters of self._api and makes no request
Setter(s, op, store) ==
    /\ Callable(s)
    /\ Solaredge' = store
    /\ last' = Last(s, op, None, NoCall("returned"))
    /\ UNCHANGED <<today, session, raw, result, again, callers>>

set_datetimes(s, start, end) ==
    Setter(s, "set_datetimes",
        [Solaredge EXCEPT
            !.parameters.startTime = DateTimeStr(today - start, "00:00:00"),
            !.parameters.endTime = DateTimeStr(today - end, "23:59:59")])

\* a set_dates that moves the times along with the dates
DatesAndTimes(s, start, end) ==
    Setter(s, "set_dates",
        [Solaredge EXCEPT
            !.parameters.startDate = DateStr(today - start),
            !.parameters.endDate = DateStr(today - end),
            !.parameters.startTime = DateTimeStr(today - start, "00:00:00"),
            !.parameters.endTime = DateTimeStr(today - end, "23:59:59")])

set_dates(s, start, end) ==
    Setter(s, "set_dates",
        [Solaredge EXCEPT
            !.parameters.startDate = DateStr(today - start),
            !.parameters.endDate = DateStr(today - end)])

set_time_unit(s, unit) ==
    Setter(s, "set_time_unit", [Solaredge EXCEPT !.parameters.timeUnit = unit])

---------------------------------------------------------------------------
(* api.py: the accessors.  Each assigns its override, if it has one, to    *)
(* self._api.arguments and then calls _call_api.                           *)

\* an accessor that makes its request with the site the store already holds
KeptSite(store, id) == store

\* if id is not None: self._api.arguments.siteid = id
OptionalSite(store, id) ==
    IF id # None THEN [store EXCEPT !.arguments.siteid = id] ELSE store

\* an accessor that puts its id in no store
UnstoredSite(store, id) == store

\* self._api.arguments.siteid = id
RequiredSite(store, id) == [store EXCEPT !.arguments.siteid = id]

\* if serial is not None: self._api.arguments.serialnumber = serial
OptionalSerial(store, serial) ==
    IF serial # None THEN [store EXCEPT !.arguments.serialnumber = serial]
    ELSE store

\* an accessor of object s: store is self._api after the override, r the
\* result of its call of _call_api
Accessor(s, op, arg, store, r) ==
    /\ Callable(s)
    /\ Solaredge' = store
    /\ last' = Last(s, op, arg, r)
    /\ UNCHANGED <<today, session, raw, result, again, callers>>

get_current_version(s, resp) ==
    Accessor(s, "get_current_version", None, Solaredge,
             _call_api(APIList.CurrentVersion, Solaredge, resp))

get_supported_versions(s, resp) ==
    Accessor(s, "get_supported_versions", None, Solaredge,
             _call_api(APIList.SupportedVersions, Solaredge, resp))

get_sites(s, resp) ==
    Accessor(s, "get_sites", None, Solaredge,
             _call_api(APIList.Sites, Solaredge, resp))

get_site_details(s, id, resp) ==
    LET store == OptionalSite(Solaredge, id)
    IN  Accessor(s, "get_site_details", id, store,
                 _call_api(APIList.SiteInfo, store, resp))

get_data_period(s, id, resp) ==
    LET store == OptionalSite(Solaredge, id)
    IN  Accessor(s, "get_data_period", id, store,
                 _call_api(APIList.SiteDataPeriod, store, resp))

get_site_overview(s, id, resp) ==
    LET store == OptionalSite(Solaredge, id)
    IN  Accessor(s, "get_site_overview", id, store,
                 _call_api(APIList.SiteOverview, store, resp))

get_energy(s, id, resp) ==
    LET store == OptionalSite(Solaredge, id)
    IN  Accessor(s, "get_energy", id, store,
                 _call_api(APIList.SiteEnergy, store, resp))

get_energy_details(s, id, resp) ==
    LET store == OptionalSite(Solaredge, id)
    IN  Accessor(s, "get_energy_details", id, store,
                 _call_api(APIList.EnergyDetails, store, resp))

get_power(s, id, resp) ==
    LET store == OptionalSite(Solaredge, id)
    IN  Accessor(s, "get_power", id, store,
                 _call_api(APIList.Power, store, resp))

get_power_details(s, site, resp) ==
    LET store == OptionalSite(Solaredge, site)
    IN  Accessor(s, "get_power_details", site, store,
                 _call_api(APIList.PowerDetails, store, resp))

get_power_flow(s, id, resp) ==
    LET store == RequiredSite(Solaredge, id)
    IN  Accessor(s, "get_power_flow", id, store,
                 _call_api(APIList.PowerFlow, store, resp))

get_storage(s, id, resp) ==
    LET store == RequiredSite(Solaredge, id)
    IN  Accessor(s, "get_storage", id, store,
                 _call_api(APIList.Storage, store, resp))

get_site_components(s, site, resp) ==
    LET store == OptionalSite(Solaredge, site)
    IN  Accessor(s, "get_site_components", site, store,
                 _call_api(APIList.Components, store, resp))

get_site_inventory(s, id, resp) ==
    LET store == RequiredSite(Solaredge, id)
    IN  Accessor(s, "get_site_inventory", id, store,
                 _call_api(APIList.Inventory, store, resp))

\* an accessor that replaces the inventories the session holds
StoringInverters(s, id, resp) ==
    LET store == RequiredSite(Solaredge, id)
    IN  /\ Callable(s)
        /\ Solaredge' = store
        /\ session' = [session EXCEPT ![s].inventories = <<>>]
        /\ last' = Last(s, "get_inverters", id,
                        _call_api(APIList.Inventory, store, resp))
        /\ UNCHANGED <<today, raw, result, again, callers>>

\* results = self.get_site_inventory(id)
get_inverters(s, id, resp) ==
    LET store == RequiredSite(Solaredge, id)
    IN  Accessor(s, "get_inverters", id, store,
                 _call_api(APIList.Inventory, store, resp))

get_env_benefits(s, id, resp) ==
    LET store == RequiredSite(Solaredge, id)
    IN  Accessor(s, "get_env_benefits", id, store,
                 _call_api(APIList.SiteBenefits, store, resp))

get_timeframe_energy(s, id, resp) ==
    LET store == RequiredSite(Solaredge, id)
    IN  Accessor(s, "get_timeframe_energy", id, store,
                 _call_api(APIList.SiteEnergyTimeframe, store, resp))

\* a telemetry accessor that makes its request whatever the serial is
SerialIgnored(store) == TRUE

\* if self._api.arguments.serialnumber is not None: ... else: return None
SerialKnown(store) == store.arguments.serialnumber # None

get_inverter_telemetry(s, serial, resp) ==
    LET store == OptionalSerial(Solaredge, serial)
    IN  Accessor(s, "get_inverter_telemetry", serial, store,
                 IF SerialKnown(store)
                 THEN _call_api(APIList.InverterData, store, resp)
                 ELSE CallResult(0, NoUrl, NoResponse, "returned", FALSE,
                          MissingArguments(APIList.InverterData, store)))

\* the accessors that take no override, an optional one, a required one
Plain(s, resp) ==
    \/ get_current_version(s, resp)
    \/ get_supported_versions(s, resp)
    \/ get_sites(s, resp)

Overridable(s, id, resp) ==
    \/ get_site_details(s, id, resp)
    \/ get_data_period(s, id, resp)
    \/ get_site_overview(s, id, resp)
    \/ get_energy(s, id, resp)
    \/ get_energy_details(s, id, resp)
    \/ get_power(s, id, resp)
    \/ get_power_details(s, id, resp)
    \/ get_site_components(s, id, resp)

Targeted(s, id, resp) ==
    \/ get_power_flow(s, id, resp)
    \/ get_storage(s, id, resp)
    \/ get_site_inventory(s, id, resp)
    \/ get_inverters(s, id, resp)
    \/ get_env_benefits(s, id, resp)
    \/ get_timeframe_energy(s, id, resp)

\* midnight passes
Tick ==
    /\ Idle
    /\ today < LoadDay + MaxDay
    /\ today' = today + 1
    /\ UNCHANGED <<Solaredge, session, last, raw, result, again, callers>>

---------------------------------------------------------------------------
(* api.py: get_energy called by several threads on one client.  The        *)
(* accessor is two steps with the store between them: the assignment of    *)
(* the override, and _call_api reading the store to build the URL it       *)
(* requests.  Nothing in the client keeps another thread from running      *)
(* between the two.                                                        *)

Callers == {1, 2}

\* a caller: inside is TRUE from the assignment of the override to the
\* request; id is the override of its last call and url the URL requested
\* for it; alone is FALSE if another caller assigned its override while this
\* one was inside, or was inside when this one came in
NoCaller == [inside |-> FALSE, id |-> None, url |-> NoUrl, alone |-> TRUE]

NoCallers == [c \in Callers |-> NoCaller]

\* get_energy(id), line 114-115: if id is not None: siteid = id
Override(c, id) ==
    /\ ~callers[c].inside
    /\ Solaredge' = OptionalSite(Solaredge, id)
    /\ callers' =
          [o \in Callers |->
              IF o = c
              THEN [inside |-> TRUE, id |-> id, url |-> NoUrl,
                    alone |-> \A x \in Callers \ {c} : ~callers[x].inside]
              ELSE IF callers[o].inside
              THEN [callers[o] EXCEPT !.alone = FALSE]
              ELSE callers[o]]
    /\ UNCHANGED <<today, session, last, raw, result, again>>

\* get_energy(id), line 116: _call_api builds the URL from the store as it
\* is now and requests it
Request(c) ==
    /\ callers[c].inside
    /\ callers' = [callers EXCEPT
                      ![c].inside = FALSE,
                      ![c].url = BuildUrl(APIList.SiteEnergy, Solaredge)]
    /\ UNCHANGED <<today, Solaredge, session, last, raw, result, again>>

---------------------------------------------------------------------------
(* The sessions of one process.                                            *)

\* no record has been built
NotDecoded == [raised |-> "-", value |-> None]

Init ==
    /\ today = LoadDay
    /\ Solaredge = RESTClient
    /\ session = [s \in Sessions |-> NoClient]
    /\ last = NoLast
    /\ raw = NotDecoded
    /\ result = NotDecoded
    /\ again = NotDecoded
    /\ callers = NoCallers

\* one client: its construction, every accessor, every answer of the server
Next ==
    \/ Return
    \/ \E apikey \in ApiKeys, d \in Discoveries, f \in 0..(1 + MaxSites) :
          __init__(1, apikey, d, f)
    \/ __exit__(1)
    \/ close(1)
    \/ \E unit \in Units : set_time_unit(1, unit)
    \/ \E resp \in Responses : Plain(1, resp)
    \/ \E id \in SiteIds \cup {None}, resp \in Responses :
          Overridable(1, id, resp)
    \/ \E id \in SiteIds, resp \in Responses : Targeted(1, id, resp)
    \/ \E serial \in Serials \cup {None}, resp \in Responses :
          get_inverter_telemetry(1, serial, resp)

Spec == Init /\ [][Next]_vars

\* the server answers every request
Served == {Response("200", "vendor")}

\* two clients in one process over several days: constructions, setters and
\* the accessors that read what the setters write
NextStore ==
    \/ Tick
    \/ Return
    \/ \E s \in Sessions, apikey \in ApiKeys \ {None}, d \in Discoveries :
          __init__(s, apikey, d, 0)
    \/ \E s \in Sessions, a \in DayArgs : set_datetimes(s, a[1], a[2])
    \/ \E s \in Sessions, a \in DayArgs : set_dates(s, a[1], a[2])
    \/ \E s \in Sessions, unit \in Units : set_time_unit(s, unit)
    \/ \E s \in Sessions, id \in SiteIds \cup {None}, resp \in Served :
          get_energy(s, id, resp)
    \/ \E s \in Sessions, serial \in Serials \cup {None}, resp \in Served :
          get_inverter_telemetry(s, serial, resp)

SpecStore == Init /\ [][NextStore]_vars

\* one client, constructed on an account with the one site "1", and the
\* callers of its get_energy
InitRace ==
    /\ today = LoadDay
    /\ Solaredge = [RESTClient EXCEPT !.parameters.api_key = PyStr("k1"),
                                      !.arguments.siteid = PyStr("1")]
    /\ session = [s \in Sessions |->
                     IF s = 1
                     THEN [state |-> "Ready", transport |-> "open",
                           sites |-> <<PyStr("1")>>,
                           inventories |-> <<[site |-> PyStr("1"),
                                              inverters |-> <<>>]>>]
                     ELSE NoClient]
    /\ last = NoLast
    /\ raw = NotDecoded
    /\ result = NotDecoded
    /\ again = NotDecoded
    /\ callers = NoCallers

NextRace ==
    \/ \E c \in Callers, id \in SiteIds \cup {None} : Override(c, id)
    \/ \E c \in Callers : Request(c)

SpecRace == InitRace /\ [][NextRace]_vars

---------------------------------------------------------------------------
(* const.py: the enumerations, each the sequence of its members in         *)
(* declaration order.                                                      *)

PyBool(b) == [k |-> "bool", b |-> b]
PyList(items) == [k |-> "list", items |-> items]
PyDict(map) == [k |-> "dict", map |-> map]
\* a member of an enumeration
PyEnum(enum, name) == [k |-> "enum", enum |-> enum, name |-> name]
\* a datetime object
PyDatetime(d, t) == [k |-> "datetime", date |-> d, time |-> t]
\* an instance of a dataclass: its attributes
PyObject(cls, attrs) == [k |-> "object", cls |-> cls, attrs |-> attrs]
\* a dictionary whose keys are iterated over: its entries [key, value] in the
\* order of insertion
PyMapping(entries) == [k |-> "mapping", entries |-> entries]

Member(name, value) == [name |-> name, value |-> value]

TimeUnit ==
    <<Member("QUARTER_OF_AN_HOUR", PyStr("QUARTER_OF_AN_HOUR")),
      Member("HOUR", PyStr("HOUR")), Member("DAY", PyStr("DAY")),
      Member("WEEK", PyStr("WEEK")), Member("MONTH", PyStr("MONTH")),
      Member("YEAR", PyStr("YEAR"))>>

Unit == <<Member("WATT", PyStr("W")), Member("WATT_HOUR", PyStr("Wh"))>>

Order == <<Member("ASCENDING", PyStr("ASC")), Member("DESCENDING", PyStr("DESC"))>>

SiteStatus ==
    <<Member("ACTIVE", PyStr("Active")), Member("PENDING", PyStr("Pending")),
      Member("DISABLED", PyStr("Disabled")), Member("ALL", PyStr("All"))>>

Property ==
    <<Member("NAME", PyStr("Name")), Member("COUNTRY", PyStr("Country")),
      Member("STATE", PyStr("State")), Member("CITY", PyStr("City")),
      Member("ADDRESS", PyStr("Address")), Member("ZIP", PyStr("Zip")),
      Member("STATUS", PyStr("Status")), Member("PEAKPOWER", PyStr("PeakPower")),
      Member("INSTALLATIONDATE", PyStr("InstallationDate")),
      Member("AMOUNT", PyStr("Amount")),
      Member("MAXSEVERITY", PyStr("MaxSeverity")),
      Member("CREATIONTIME", PyStr("CreationTime"))>>

Meters ==
    <<Member("PRODUCTION", PyStr("Production")),
      Member("CONSUMPTION", PyStr("Consumption")),
      Member("SELFCONSUMPTION", PyStr("SelfConsumption")),
      Member("FEEDIN", PyStr("FeedIn")), Member("PURCHASED", PyStr("Purchased"))>>

Metrics == <<Member("METRIC", PyStr("Metric")), Member("IMPERIAL", PyStr("Imperial"))>>

InverterMode ==
    <<Member("OFF", PyStr("Off")), Member("SLEEPING", PyStr("Night mode")),
      Member("STARTING", PyStr("Pre-production")),
      Member("MPPT", PyStr("Production")),
      Member("THROTTLED", PyStr("Forced power reduction")),
      Member("SHUTTING_DOWN", PyStr("Shutdown procedure")),
      Member("FAULT", PyStr("Error mode")),
      Member("STANDBY", PyStr("Maintenance mode")),
      Member("LOCKED_STDBY", PyStr("Standby mode lock")),
      Member("LOCKED_FIRE_FIGHTERS", PyStr("Firefighters lock mode")),
      Member("LOCKED_FORCE_SHUTDOWN", PyStr("Forced shutdown from server")),
      Member("LOCKED_COMM_TIMEOUT", PyStr("Communication timeout")),
      Member("LOCKED_INV_TRIP", PyStr("Inverter selflock trip")),
      Member("LOCKED_INV_ARC_DETECTED",
             PyStr("Inverter self-lock on arc detection")),
      Member("LOCKED_DG", PyStr("Inverter lock due to DG mode enable")),
      Member("LOCKED_PHASE_BALANCER",
             PyStr("Inverter lock due to phase imbalance (1ph, Australia only)")),
      Member("LOCKED_PRE_COMMISSIONING",
             PyStr("Inverter lock due to precommissioning")),
      Member("LOCKED_INTERNAL",
             PyStr("Inverter lock due to an undisclosed internal reason"))>>

OperationMode ==
    <<Member("ON_GRID", PyInt(1)), Member("OFF_GRID_PV_BATTERY", PyInt(2)),
      Member("OFF_GRID_GENERATOR", PyInt(3))>>

\* ConstantList: the enumerations by name
ConstantList ==
    [TimeUnit |-> TimeUnit, Unit |-> Unit, Order |-> Order,
     SiteStatus |-> SiteStatus, Property |-> Property, Meters |-> Meters,
     Metrics |-> Metrics, InverterMode |-> InverterMode,
     OperationMode |-> OperationMode]

---------------------------------------------------------------------------
(* Python: what the decoder relies on.                                     *)

\* a == b between two values
PyEq(a, b) ==
    LET num(v) == IF v.k = "int" THEN v.i ELSE IF v.b THEN 1 ELSE 0
    IN  IF a.k \in {"int", "bool"} /\ b.k \in {"int", "bool"}
        THEN num(a) = num(b)
        ELSE a = b

\* lists and dictionaries cannot be hashed
Hashable(v) == v.k \notin {"list", "dict", "mapping"}

\* bool(value)
Truthy(v) ==
    CASE v.k = "None" -> FALSE
      [] v.k = "str" -> v.s # ""
      [] v.k = "int" -> v.i # 0
      [] v.k = "bool" -> v.b
      [] v.k = "list" -> v.items # <<>>
      [] v.k = "dict" -> DOMAIN v.map # {}
      [] v.k = "mapping" -> v.entries # <<>>
      [] OTHER -> TRUE

\* a converted value, or the exception the conversion raised
Converted(v) == [raised |-> "", value |-> v]
Raised(exception) == [raised |-> exception, value |-> None]

\* the timestamps ciso8601 is given here, and what it parses them to
Timestamps ==
    [a \in {"2024-01-01 00:00:00", "2024-01-02 00:00:00"} |->
        IF a = "2024-01-01 00:00:00"
        THEN PyDatetime("2024-01-01", "00:00:00")
        ELSE PyDatetime("2024-01-02", "00:00:00")]

\* ciso8601.parse_datetime(value)
parse_datetime(v) ==
    IF v.k # "str" THEN Raised("TypeError")
    ELSE IF v.s \in DOMAIN Timestamps THEN Converted(Timestamps[v.s])
    ELSE Raised("ValueError")

\* entry_type[value]: the member of that name
EnumByName(enum, v) ==
    IF ~Hashable(v) THEN Raised("TypeError")
    ELSE LET members == ConstantList[enum]
             hits == {i \in DOMAIN members :
                         v.k = "str" /\ members[i].name = v.s}
         IN  IF hits = {} THEN Raised("KeyError")
             ELSE Converted(PyEnum(enum, members[CHOOSE i \in hits : TRUE].name))

\* getattr(entry_type, name): the member of that name
EnumAttribute(enum, v) ==
    LET byName == EnumByName(enum, v)
    IN  IF byName.raised # "" THEN Raised("AttributeError") ELSE byName

\* an enumeration that cannot be looked up by value
NoLookupByValue(enum, v) == Raised("ValueError")

\* entry_type(value): the first member of that value
EnumByValue(enum, v) ==
    LET members == ConstantList[enum]
        hits == {i \in DOMAIN members : PyEq(members[i].value, v)}
    IN  IF hits = {} THEN Raised("ValueError")
        ELSE Converted(PyEnum(enum,
                 members[CHOOSE i \in hits : \A j \in hits : i <= j].name))

---------------------------------------------------------------------------
(* apiconstruct.py: baseclass.  A class is the sequence of its fields in   *)
(* declaration order; a field has a declared type and, unless it is        *)
(* required, a default.                                                    *)

DatetimeType == [t |-> "datetime"]
DateType == [t |-> "date"]
TimeType == [t |-> "time"]
\* float, str, int or bool
PrimitiveType(kind) == [t |-> "primitive", kind |-> kind]
EnumType(enum) == [t |-> "enum", enum |-> enum]
ClassType(cls) == [t |-> "dataclass", cls |-> cls]
\* list[elem]
ListType(elem) == [t |-> "list", elem |-> elem]
\* dict[key, value]
MappingType(key, value) == [t |-> "dict", key |-> key, value |-> value]

Required(name, type) ==
    [name |-> name, type |-> type, required |-> TRUE, default |-> None]
Defaulted(name, type, default) ==
    [name |-> name, type |-> type, required |-> FALSE, default |-> default]

\* the dataclasses the decoder is run on: a reading with a timestamp, an
\* enumeration, a number and a nested record, and a profile with lists and
\* dictionaries
Classes ==
    [Reading |->
        <<Required("date", DatetimeType),
          Required("unit", EnumType("Unit")),
          Defaulted("count", PrimitiveType("int"), PyInt(0)),
          Defaulted("phase", ClassType("Phase"), None),
          Defaulted("phases", ListType(ClassType("Phase")), None)>>,
     Profile |->
        <<Defaulted("phases", ListType(ClassType("Phase")), None),
          Defaulted("byMeter",
                    MappingType(EnumType("Meters"), ClassType("Phase")), None),
          Defaulted("units",
                    MappingType(PrimitiveType("str"), EnumType("Unit")), None),
          Defaulted("modes", ListType(EnumType("OperationMode")), None),
          Defaulted("counts", ListType(PrimitiveType("int")), None)>>,
     Phase |->
        <<Required("mode", EnumType("OperationMode")),
          Defaulted("power", PrimitiveType("float"), None)>>]

FieldNames(cls) == {Classes[cls][i].name : i \in DOMAIN Classes[cls]}

\* cls.__match_args__
MatchArgs(cls) == FieldNames(cls)

RECURSIVE Construct(_, _)
RECURSIVE PostInitFrom(_, _, _, _)
RECURSIVE ConvertEntry(_, _, _)
RECURSIVE ConvertItems(_, _, _)
RECURSIVE ConvertMapping(_, _, _, _, _)

\* the locals index and data of __post_init__: they are bound by the loop
\* over a list of dataclasses and by the loop over a dictionary, and they
\* keep the values of the last pass of the last loop
NoLoop == [bound |-> FALSE, index |-> 0, data |-> None]
Loop(index, data) == [bound |-> TRUE, index |-> index, data |-> data]

\* the Enum branch: by name, on KeyError by value, on TypeError left as it is
ConvertEnum(enum, v) ==
    LET byName == EnumByName(enum, v)
    IN  IF byName.raised = "KeyError" THEN EnumByValue(enum, v)
        ELSE IF byName.raised = "TypeError" THEN Converted(v)
        ELSE byName

\* parse_kwargs(cls, **kwargs): the keys that are no field are logged and
\* dropped; ** of a value that is no dictionary raises TypeError
parse_kwargs(cls, v) ==
    IF v.k # "dict" THEN Raised("TypeError")
    ELSE Construct(cls,
            [n \in DOMAIN v.map \cap MatchArgs(cls) |-> v.map[n]])

\* the loop over a list of dictionaries from index i on: every item is
\* replaced in the list itself by the object built from it; items is the list
\* as the loop leaves it, whether it ends or raises
ConvertItems(cls, items, i) ==
    IF i > Len(items) THEN [raised |-> "", items |-> items]
    ELSE LET r == parse_kwargs(cls, items[i])
         IN  IF r.raised # "" THEN [raised |-> r.raised, items |-> items]
             ELSE ConvertItems(cls, [items EXCEPT ![i] = r.value], i + 1)

\* the list branch for a list of an Enum: one statement outside every loop,
\* entry_value[index] = entry_type.__args__[0][data], on the index and data
\* an earlier loop has left; on KeyError the field is given a copy of the
\* list, on TypeError nothing is done
ConvertEnumItems(enum, v, loop) ==
    IF ~loop.bound THEN Raised("UnboundLocalError")
    ELSE LET byName == EnumByName(enum, loop.data)
         IN  IF byName.raised \in {"KeyError", "TypeError"} THEN Converted(v)
             ELSE IF loop.index >= Len(v.items) THEN Raised("IndexError")
             ELSE Converted(PyList([v.items EXCEPT
                                       ![loop.index + 1] = byName.value]))

\* the list branch; but for the copy on KeyError the field keeps the list it
\* was given
ConvertList(elem, v, loop) ==
    IF elem.t = "dataclass"
    THEN LET r == ConvertItems(elem.cls, v.items, 1)
         IN  IF r.raised # "" THEN Raised(r.raised)
             ELSE Converted(PyList(r.items))
    ELSE IF elem.t = "enum" THEN ConvertEnumItems(elem.enum, v, loop)
    ELSE Converted(v)

\* new_dict[key] = value
SetItem(entries, key, value) ==
    IF \E i \in DOMAIN entries : entries[i].key = key
    THEN [i \in DOMAIN entries |->
             IF entries[i].key = key THEN [key |-> key, value |-> value]
             ELSE entries[i]]
    ELSE Append(entries, [key |-> key, value |-> value])

\* the dict branch from entry i on: a value is built into the dataclass if
\* the value type is one and is kept as it is otherwise; the key is replaced
\* by the member of that name if the key type is an Enum
ConvertMapping(key, value, entries, i, new_dict) ==
    IF i > Len(entries) THEN Converted(PyMapping(new_dict))
    ELSE LET data == entries[i].key
             item == IF value.t = "dataclass"
                     THEN parse_kwargs(value.cls, entries[i].value)
                     ELSE Converted(entries[i].value)
             member == IF key.t = "enum" THEN EnumAttribute(key.enum, data)
                       ELSE Converted(data)
         IN  IF item.raised # "" THEN Raised(item.raised)
             ELSE IF member.raised # "" THEN Raised(member.raised)
             ELSE ConvertMapping(key, value, entries, i + 1,
                                 SetItem(new_dict, member.value, item.value))

\* index and data after the pass over a field that has not raised
LoopAfter(type, v, loop) ==
    IF v = None THEN loop
    ELSE IF type.t = "list" /\ type.elem.t = "dataclass" /\ v.items # <<>>
    THEN Loop(Len(v.items) - 1, v.items[Len(v.items)])
    ELSE IF type.t = "dict" /\ Truthy(v)
    THEN Loop(Len(v.entries) - 1, v.entries[Len(v.entries)].key)
    ELSE loop

\* one pass of the loop over fields(self): the value the field is left with
ConvertEntry(type, v, loop) ==
    IF v = None THEN Converted(v)
    ELSE IF type.t = "datetime" THEN parse_datetime(v)
    ELSE IF type.t = "primitive" THEN Converted(v)
    ELSE IF type.t \in {"date", "time"}
    THEN LET parsed == parse_datetime(v)
         IN  IF parsed.raised # "" THEN parsed
             ELSE Converted([k |-> type.t,
                             v |-> IF type.t = "date" THEN parsed.value.date
                                   ELSE parsed.value.time])
    ELSE IF type.t = "list" THEN ConvertList(type.elem, v, loop)
    ELSE IF type.t = "dataclass" /\ Truthy(v) THEN parse_kwargs(type.cls, v)
    ELSE IF type.t = "enum" THEN ConvertEnum(type.enum, v)
    ELSE IF type.t = "dict" /\ Truthy(v)
    THEN ConvertMapping(type.key, type.value, v.entries, 1, <<>>)
    ELSE Converted(v)

\* __post_init__ from field i on; an exception ends it
PostInitFrom(cls, i, attrs, loop) ==
    IF i > Len(Classes[cls]) THEN Converted(PyObject(cls, attrs))
    ELSE LET entry == Classes[cls][i]
             v == attrs[entry.name]
             rest(r) ==
                 IF r.raised # "" THEN r
                 ELSE PostInitFrom(cls, i + 1,
                                   [attrs EXCEPT ![entry.name] = r.value],
                                   LoopAfter(entry.type, v, loop))
         IN  rest(ConvertEntry(entry.type, v, loop))

\* the generated __init__ raises TypeError for a keyword that is no field
\* and for a required field that is not given
ArgsRejected(cls, kwargs) ==
    \/ \E n \in DOMAIN kwargs : n \notin FieldNames(cls)
    \/ \E i \in DOMAIN Classes[cls] :
          Classes[cls][i].required /\ Classes[cls][i].name \notin DOMAIN kwargs

\* the attributes the generated __init__ assigns: the keyword or the default
InitAttrs(cls, kwargs) ==
    [n \in FieldNames(cls) |->
        IF n \in DOMAIN kwargs THEN kwargs[n]
        ELSE Classes[cls][CHOOSE i \in DOMAIN Classes[cls] :
                             Classes[cls][i].name = n].default]

\* cls(**kwargs): the generated __init__, then __post_init__
Construct(cls, kwargs) ==
    IF ArgsRejected(cls, kwargs) THEN Raised("TypeError")
    ELSE PostInitFrom(cls, 1, InitAttrs(cls, kwargs), NoLoop)

\* the dictionary kwargs came from as __post_init__ leaves it from field i
\* on: ** copies the dictionary but not the lists in it, so the items the
\* list branch replaces are replaced in the caller's list too
RECURSIVE LeftFrom(_, _, _, _, _)
LeftFrom(cls, i, attrs, kwargs, loop) ==
    IF i > Len(Classes[cls]) THEN kwargs
    ELSE LET entry == Classes[cls][i]
             v == attrs[entry.name]
             rest(r, left) ==
                 IF r.raised # "" THEN left
                 ELSE LeftFrom(cls, i + 1,
                               [attrs EXCEPT ![entry.name] = r.value], left,
                               LoopAfter(entry.type, v, loop))
         IN  rest(ConvertEntry(entry.type, v, loop),
                  IF /\ entry.name \in DOMAIN kwargs
                     /\ v # None
                     /\ entry.type.t = "list"
                     /\ entry.type.elem.t = "dataclass"
                  THEN [kwargs EXCEPT ![entry.name] =
                           PyList(ConvertItems(entry.type.elem.cls,
                                               v.items, 1).items)]
                  ELSE kwargs)

\* the caller's dictionary after cls(**kwargs)
RawAfter(cls, kwargs) ==
    IF ArgsRejected(cls, kwargs) THEN kwargs
    ELSE LeftFrom(cls, 1, InitAttrs(cls, kwargs), kwargs, NoLoop)

---------------------------------------------------------------------------
(* The decoder on its own: a record is built from keyword arguments.       *)

\* the keyword arguments Reading is built from
RawReadings ==
    [date : {PyStr("2024-01-01 00:00:00"), PyStr("yesterday")},
     unit : {None, PyStr("WATT"), PyStr("W"), PyStr("Wh"), PyStr("kW"),
             PyInt(1), PyList(<<>>)},
     count : {None, PyInt(5), PyStr("five")},
     phase : {None, PyDict(<<>>),
              PyDict([mode |-> PyInt(1)]),
              PyDict([mode |-> PyStr("OFF_GRID_GENERATOR"), power |-> None]),
              PyDict([mode |-> PyInt(9)]),
              PyDict([mode |-> PyInt(2), extra |-> PyStr("x")]),
              PyDict([power |-> PyInt(7)])},
     phases : {None, PyList(<<>>),
               PyList(<<PyDict([mode |-> PyInt(1)])>>),
               PyList(<<PyDict([mode |-> PyInt(3)]),
                        PyDict([mode |-> PyInt(2), extra |-> PyStr("x")])>>)}]

\* the same keyword arguments and one that is no field of Reading
WithExtra(kwargs) ==
    [n \in DOMAIN kwargs \cup {"extra"} |->
        IF n = "extra" THEN PyStr("x") ELSE kwargs[n]]

RawInputs == RawReadings \cup {WithExtra(kwargs) : kwargs \in RawReadings}

Decoded == result # NotDecoded

DecodedAgain == again # NotDecoded

InitDecode ==
    /\ today = LoadDay
    /\ Solaredge = RESTClient
    /\ session = [s \in Sessions |-> NoClient]
    /\ last = NoLast
    /\ raw \in RawInputs
    /\ result = NotDecoded
    /\ again = NotDecoded
    /\ callers = NoCallers

\* Reading(**raw)
Decode ==
    /\ ~Decoded
    /\ result' = Construct("Reading", raw)
    /\ UNCHANGED <<today, Solaredge, session, last, raw, again, callers>>

\* Reading(**raw) once more, raw being as the first Reading(**raw) left it
DecodeAgain ==
    /\ Decoded
    /\ ~DecodedAgain
    /\ again' = Construct("Reading", RawAfter("Reading", raw))
    /\ UNCHANGED <<today, Solaredge, session, last, raw, result, callers>>

NextDecode == Decode \/ DecodeAgain

SpecDecode == InitDecode /\ [][NextDecode]_vars

---------------------------------------------------------------------------
(* The request builder on its own: _call_api for every endpoint on every   *)
(* state of the parameters.                                                *)

ParameterStates ==
    [size : {None, PyInt(100)},
     startIndex : {None, PyInt(0)},
     searchText : {None, PyStr("")},
     sortProperty : {None, PyStr("Name")},
     sortOrder : {None, PyStr("ASC")},
     Status : {None, PyStr("All")},
     api_key : {None, PyStr("k1")},
     startDate : {None, DateStr(LoadDay - 1)},
     endDate : {None, DateStr(LoadDay)},
     startTime : {None, DateTimeStr(LoadDay - 1, "00:00:00")},
     endTime : {None, DateTimeStr(LoadDay, "23:59:59")},
     timeUnit : {None, PyStr("DAY")},
     meters : {None, PyStr("Production")},
     serials : {None, PyStr("SN1")},
     systemUnits : {PyStr("Metric")}]

InitQuery ==
    /\ today = LoadDay
    /\ \E p \in ParameterStates :
          Solaredge = [RESTClient EXCEPT
                          !.parameters = p,
                          !.arguments = [siteid |-> PyStr("1"),
                                         serialnumber |-> PyStr("SN1")]]
    /\ session = [s \in Sessions |-> NoClient]
    /\ last = NoLast
    /\ raw = NotDecoded
    /\ result = NotDecoded
    /\ again = NotDecoded
    /\ callers = NoCallers

\* self._call_api(api=APIList.<name>.value), the server answering
CallEndpoint(name) ==
    /\ Idle
    /\ last' = Last(0, "_call_api", PyStr(name),
                    _call_api(APIList[name], Solaredge,
                              Response("200", "vendor")))
    /\ UNCHANGED <<today, Solaredge, session, raw, result, again, callers>>

NextQuery ==
    \/ Return
    \/ \E name \in DOMAIN APIList : CallEndpoint(name)

SpecQuery == InitQuery /\ [][NextQuery]_vars

---------------------------------------------------------------------------
(* The Enum branch on its own: a field of every enumeration is given the   *)
(* name and the value of every member, and values of no member.            *)

\* the name and the value of every member of the enumeration
MemberInputs(e) ==
    UNION {{[enum |-> e, v |-> PyStr(ConstantList[e][i].name)],
            [enum |-> e, v |-> ConstantList[e][i].value]} :
              i \in DOMAIN ConstantList[e]}

EnumInputs ==
    UNION {MemberInputs(e) : e \in DOMAIN ConstantList}
    \cup [enum : DOMAIN ConstantList, v : {PyStr("?"), PyInt(0), PyList(<<>>)}]

InitEnum ==
    /\ today = LoadDay
    /\ Solaredge = RESTClient
    /\ session = [s \in Sessions |-> NoClient]
    /\ last = NoLast
    /\ raw \in EnumInputs
    /\ result = NotDecoded
    /\ again = NotDecoded
    /\ callers = NoCallers

\* the pass of the loop of __post_init__ over a field of type raw.enum
DecodeEnum ==
    /\ ~Decoded
    /\ result' = ConvertEntry(EnumType(raw.enum), raw.v, NoLoop)
    /\ UNCHANGED <<today, Solaredge, session, last, raw, again, callers>>

NextEnum == DecodeEnum

SpecEnum == InitEnum /\ [][NextEnum]_vars

---------------------------------------------------------------------------
(* The list and dict branches of the decoder: a record with lists of       *)
(* records, of Enum members and of numbers, and with dictionaries keyed by *)
(* an Enum and by strings.                                                 *)

Entry(key, value) == [key |-> PyStr(key), value |-> value]

\* the keyword arguments Profile is built from
RawProfiles ==
    [phases : {None, PyList(<<>>),
               PyList(<<PyDict([mode |-> PyInt(1)])>>),
               PyList(<<PyDict([mode |-> PyInt(3)]),
                        PyDict([mode |-> PyStr("ON_GRID"),
                                power |-> PyInt(7)])>>)},
     byMeter : {None, PyMapping(<<>>),
                PyMapping(<<Entry("PRODUCTION", PyDict([mode |-> PyInt(1)]))>>),
                PyMapping(<<Entry("CONSUMPTION", PyDict([mode |-> PyInt(2)])),
                            Entry("PRODUCTION",
                                  PyDict([mode |-> PyInt(3),
                                          extra |-> PyStr("x")]))>>),
                PyMapping(<<Entry("Production", PyDict([mode |-> PyInt(1)]))>>)},
     units : {None,
              PyMapping(<<Entry("a", PyStr("W"))>>),
              PyMapping(<<Entry("ON_GRID", PyStr("WATT"))>>),
              PyMapping(<<Entry("a", PyStr("Wh")),
                          Entry("OFF_GRID_GENERATOR", PyStr("W"))>>)},
     modes : {None, PyList(<<>>),
              PyList(<<PyStr("ON_GRID")>>),
              PyList(<<PyInt(2), PyStr("OFF_GRID_GENERATOR")>>)},
     counts : {None, PyList(<<>>), PyList(<<PyInt(1), PyInt(2)>>)}]

InitProfile ==
    /\ today = LoadDay
    /\ Solaredge = RESTClient
    /\ session = [s \in Sessions |-> NoClient]
    /\ last = NoLast
    /\ raw \in RawProfiles
    /\ result = NotDecoded
    /\ again = NotDecoded
    /\ callers = NoCallers

\* Profile(**raw)
DecodeProfile ==
    /\ ~Decoded
    /\ result' = Construct("Profile", raw)
    /\ UNCHANGED <<today, Solaredge, session, last, raw, again, callers>>

NextProfile == DecodeProfile

SpecProfile == InitProfile /\ [][NextProfile]_vars

---------------------------------------------------------------------------
(* const.py: the response classes.  They do not derive from baseclass:     *)
(* each is a dataclass with a __post_init__ written by hand.  A class      *)
(* statement is given by its line, its name, its fields and the steps of   *)
(* its __post_init__.  A step names the class it builds; the name is       *)
(* looked up in the module when the step runs, where a later class         *)
(* statement of the same name has replaced the earlier one.                *)

\* self.f = dateutil.parser.parse(self.f)
ParseDate(f) == [op |-> "parse", field |-> f, cls |-> "", guard |-> ""]
\* if self.f is None: self.f = 0
NoneToZero(f) == [op |-> "zero", field |-> f, cls |-> "", guard |-> ""]
\* self.f = cls(**self.f)
NewFrom(f, cls) == [op |-> "new", field |-> f, cls |-> cls, guard |-> ""]
\* if self.guard is not None: self.f = cls(**self.f)
NewIf(guard, f, cls) == [op |-> "new", field |-> f, cls |-> cls, guard |-> guard]
\* for index, entry in enumerate(self.f):
\*     if isinstance(entry, dict): self.f[index] = cls(**self.f[index])
NewEach(f, cls) == [op |-> "each", field |-> f, cls |-> cls, guard |-> ""]

Statement(line, name, fields, steps) ==
    [line |-> line, name |-> name, fields |-> fields, steps |-> steps]

\* the class statements of the overview, energy, storage, inventory battery
\* and inverter telemetry responses and of the session cache, in the order
\* of the module
ClassStatements ==
    <<Statement(338, "SummaryData",
        <<Required("energy", PrimitiveType("float")),
          Defaulted("revenue", PrimitiveType("float"), None)>>, <<>>),
      Statement(344, "CurrentPower",
        <<Required("power", PrimitiveType("float"))>>, <<>>),
      Statement(349, "OverviewData",
        <<Required("lastUpdateTime", DatetimeType),
          Required("lifeTimeData", ClassType("SummaryData")),
          Required("lastYearData", ClassType("SummaryData")),
          Required("lastMonthData", ClassType("SummaryData")),
          Required("lastDayData", ClassType("SummaryData")),
          Required("currentPower", ClassType("CurrentPower")),
          Required("measuredBy", PrimitiveType("str"))>>,
        <<ParseDate("lastUpdateTime"),
          NewFrom("lifeTimeData", "SummaryData"),
          NewFrom("lastYearData", "SummaryData"),
          NewFrom("lastMonthData", "SummaryData"),
          NewFrom("lastDayData", "SummaryData"),
          NewFrom("currentPower", "CurrentPower")>>),
      Statement(368, "OverviewResponse",
        <<Required("overview", ClassType("OverviewData"))>>,
        <<NewFrom("overview", "OverviewData")>>),
      Statement(408, "Value",
        <<Required("date", DatetimeType),
          Defaulted("value", PrimitiveType("float"), PyInt(0))>>,
        <<ParseDate("date"), NoneToZero("value")>>),
      Statement(419, "EnergyData",
        <<Required("timeUnit", EnumType("TimeUnit")),
          Required("unit", PrimitiveType("str")),
          Required("measuredBy", PrimitiveType("str")),
          Required("values", ListType(ClassType("Value")))>>,
        <<NewEach("values", "Value")>>),
      Statement(432, "EnergyDataResponse",
        <<Required("energy", ClassType("EnergyData"))>>,
        <<NewFrom("energy", "EnergyData")>>),
      Statement(648, "BatteryTelemetry",
        <<Required("timeStamp", PrimitiveType("str")),
          Required("power", PrimitiveType("int")),
          Required("batteryState", PrimitiveType("int")),
          Required("lifeTimeEnergyCharged", PrimitiveType("int")),
          Required("lifeTimeEnergyDischarged", PrimitiveType("int")),
          Required("fullPackEnergyAvailable", PrimitiveType("int")),
          Required("internalTemp", PrimitiveType("int")),
          Required("ACGridCharging", PrimitiveType("int"))>>, <<>>),
      Statement(660, "Battery",
        <<Required("nameplate", PrimitiveType("int")),
          Required("serialNumber", PrimitiveType("str")),
          Required("modelNumber", PrimitiveType("str")),
          Required("telemetryCount", PrimitiveType("int")),
          Required("telemetries", ListType(ClassType("BatteryTelemetry")))>>,
        <<NewEach("telemetries", "BatteryTelemetry")>>),
      Statement(675, "StorageData",
        <<Required("batteryCount", PrimitiveType("int")),
          Required("batteries", ListType(ClassType("Battery")))>>,
        <<NewEach("batteries", "Battery")>>),
      Statement(686, "StorageDataResponse",
        <<Required("storageData", ClassType("StorageData"))>>,
        <<NewFrom("storageData", "StorageData")>>),
      Statement(728, "Battery",
        <<Required("name", PrimitiveType("str")),
          Required("manufacturer", PrimitiveType("str")),
          Required("model", PrimitiveType("str")),
          Required("firmwareVersion", PrimitiveType("str")),
          Required("connectedInverterSn", PrimitiveType("str")),
          Required("nameplateCapacity", PrimitiveType("float")),
          Required("SN", PrimitiveType("str"))>>, <<>>),
      Statement(849, "LData",
        <<Required("acCurrent", PrimitiveType("float")),
          Required("acVoltage", PrimitiveType("float")),
          Required("acFrequency", PrimitiveType("float")),
          Required("apparentPower", PrimitiveType("float")),
          Required("activePower", PrimitiveType("float")),
          Required("reactivePower", PrimitiveType("float")),
          Required("cosPhi", PrimitiveType("float"))>>, <<>>),
      Statement(861, "Telemetry",
        <<Required("date", DatetimeType),
          Required("totalActivePower", PrimitiveType("float")),
          Required("powerLimit", PrimitiveType("float")),
          Required("totalEnergy", PrimitiveType("float")),
          Required("temperature", PrimitiveType("float")),
          Required("inverterMode", EnumType("InverterMode")),
          Required("operationMode", PrimitiveType("int")),
          Defaulted("groundFaultResistance", PrimitiveType("float"), PyInt(0)),
          Defaulted("vL1To2", PrimitiveType("float"), PyInt(0)),
          Defaulted("vL2To3", PrimitiveType("float"), PyInt(0)),
          Defaulted("vL3To1", PrimitiveType("float"), PyInt(0)),
          Defaulted("dcVoltage", PrimitiveType("float"), PyInt(0)),
          Defaulted("L1Data", ClassType("LData"), None),
          Defaulted("L2Data", ClassType("LData"), None),
          Defaulted("L3Data", ClassType("LData"), None)>>,
        <<ParseDate("date"),
          NewIf("L1Data", "L1Data", "LData"),
          NewIf("L3Data", "L2Data", "LData"),
          NewIf("L3Data", "L3Data", "LData")>>),
      Statement(890, "InverterInfo",
        <<Required("count", PrimitiveType("int")),
          Required("telemetries", ListType(ClassType("Telemetry")))>>,
        <<NewEach("telemetries", "Telemetry")>>),
      Statement(903, "InverterResponse",
        <<Required("data", ClassType("InverterInfo"))>>,
        <<NewFrom("data", "InverterInfo")>>),
      Statement(995, "SummaryData",
        <<Defaulted("sites", ListType(ClassType("Site")), PyList(<<>>)),
          Defaulted("inventories", ListType(ClassType("InventoryData")),
                    PyList(<<>>)),
          Defaulted("components", ListType(ClassType("ComponentEntry")),
                    PyList(<<>>))>>, <<>>)>>

\* the class the name stands for when a __post_init__ runs: the module has
\* been executed to its end by then, so it is the last statement of that name
Global(name) ==
    LET hits == {i \in DOMAIN ClassStatements :
                    ClassStatements[i].name = name}
    IN  ClassStatements[CHOOSE i \in hits : \A j \in hits : j <= i]

\* the generated __init__ raises TypeError for a keyword that is no field
\* and for a required field that is not given
Rejects(fields, kwargs) ==
    \/ \E n \in DOMAIN kwargs : \A i \in DOMAIN fields : fields[i].name # n
    \/ \E i \in DOMAIN fields :
          fields[i].required /\ fields[i].name \notin DOMAIN kwargs

\* the attributes the generated __init__ assigns: the keyword or the default
Assigned(fields, kwargs) ==
    [n \in {fields[i].name : i \in DOMAIN fields} |->
        IF n \in DOMAIN kwargs THEN kwargs[n]
        ELSE fields[CHOOSE i \in DOMAIN fields : fields[i].name = n].default]

\* dateutil.parser.parse(value)
dateutil_parse(v) ==
    IF v.k # "str" THEN Raised("TypeError")
    ELSE IF v.s \in DOMAIN Timestamps THEN Converted(Timestamps[v.s])
    ELSE Raised("ParserError")

RECURSIVE New(_, _)
RECURSIVE NewItems(_, _, _)
RECURSIVE RunSteps(_, _, _)

\* cls(**value): ** of a value that is no dictionary raises TypeError
NewFromValue(name, v) ==
    IF v.k # "dict" THEN Raised("TypeError")
    ELSE New(Global(name), v.map)

\* the loop of a NewEach step from item i on
NewItems(name, items, i) ==
    IF i > Len(items) THEN Converted(PyList(items))
    ELSE IF items[i].k # "dict" THEN NewItems(name, items, i + 1)
    ELSE LET r == NewFromValue(name, items[i])
         IN  IF r.raised # "" THEN r
             ELSE NewItems(name, [items EXCEPT ![i] = r.value], i + 1)

\* __post_init__ of the class from step i on; an exception ends it
RunSteps(cls, i, attrs) ==
    IF i > Len(cls.steps) THEN Converted(PyObject(cls.name, attrs))
    ELSE LET step == cls.steps[i]
             v == attrs[step.field]
             r == CASE step.op = "parse" -> dateutil_parse(v)
                    [] step.op = "zero" ->
                          Converted(IF v = None THEN PyInt(0) ELSE v)
                    [] step.op = "new" ->
                          IF step.guard # "" /\ attrs[step.guard] = None
                          THEN Converted(v)
                          ELSE NewFromValue(step.cls, v)
                    [] step.op = "each" ->
                          IF v.k # "list" THEN Raised("TypeError")
                          ELSE NewItems(step.cls, v.items, 1)
         IN  IF r.raised # "" THEN r
             ELSE RunSteps(cls, i + 1, [attrs EXCEPT ![step.field] = r.value])

\* cls(**kwargs): the generated __init__, then __post_init__
New(cls, kwargs) ==
    IF Rejects(cls.fields, kwargs) THEN Raised("TypeError")
    ELSE RunSteps(cls, 1, Assigned(cls.fields, kwargs))

---------------------------------------------------------------------------
(* The response classes on their own: the response class of the energy,    *)
(* inverter telemetry, storage and overview endpoints is built from bodies *)
(* of the vendor's shape.                                                  *)

Day1 == PyStr("2024-01-01 00:00:00")
Day2 == PyStr("2024-01-02 00:00:00")

\* samples of a day: with a value, with null, and without the key
Samples(day) ==
    {PyDict([date |-> day, value |-> PyInt(5)]),
     PyDict([date |-> day, value |-> None]),
     PyDict([date |-> day])}

EnergyBodies ==
    {PyDict([energy |-> PyDict(
        [timeUnit |-> PyStr(u), unit |-> PyStr("Wh"),
         measuredBy |-> PyStr("INVERTER"), values |-> PyList(values)])]) :
        u \in {"DAY", "HOUR", "MONTH"},
        values \in {<<>>} \cup {<<a>> : a \in Samples(Day1)}
                   \cup {<<a, b>> : a \in Samples(Day1), b \in Samples(Day2)}}

\* the phase data of a telemetry entry
PhaseData == PyDict([acCurrent |-> PyInt(1), acVoltage |-> PyInt(230),
                     acFrequency |-> PyInt(50), apparentPower |-> PyInt(230),
                     activePower |-> PyInt(230), reactivePower |-> PyInt(0),
                     cosPhi |-> PyInt(1)])

PhaseNames == {"L1Data", "L2Data", "L3Data"}

\* a telemetry entry: every phase is absent ("-"), null, or given
TelemetryEntry(phases) ==
    LET given == {n \in PhaseNames : phases[n] # "-"}
        names == {"date", "totalActivePower", "powerLimit", "totalEnergy",
                  "temperature", "inverterMode", "operationMode"} \cup given
    IN  PyDict([n \in names |->
            CASE n = "date" -> Day1
              [] n = "inverterMode" -> PyStr("MPPT")
              [] n \in given -> IF phases[n] = "null" THEN None ELSE PhaseData
              [] OTHER -> PyInt(1)])

TelemetryBodies ==
    {PyDict([data |-> PyDict(
        [count |-> PyInt(1),
         telemetries |-> PyList(<<TelemetryEntry(phases)>>)])]) :
        phases \in [PhaseNames -> {"-", "null", "given"}]}

BatterySample ==
    PyDict([timeStamp |-> Day1, power |-> PyInt(1), batteryState |-> PyInt(3),
            lifeTimeEnergyCharged |-> PyInt(1),
            lifeTimeEnergyDischarged |-> PyInt(1),
            fullPackEnergyAvailable |-> PyInt(1), internalTemp |-> PyInt(20),
            ACGridCharging |-> PyInt(0)])

StorageBattery(telemetries) ==
    PyDict([nameplate |-> PyInt(1), serialNumber |-> PyStr("B1"),
            modelNumber |-> PyStr("M1"),
            telemetryCount |-> PyInt(Len(telemetries)),
            telemetries |-> PyList(telemetries)])

StorageBodies ==
    {PyDict([storageData |-> PyDict(
        [batteryCount |-> PyInt(Len(batteries)),
         batteries |-> PyList(batteries)])]) :
        batteries \in {<<>>, <<StorageBattery(<<>>)>>,
                       <<StorageBattery(<<BatterySample>>)>>,
                       <<StorageBattery(<<BatterySample>>),
                         StorageBattery(<<>>)>>}}

Summaries ==
    {PyDict([energy |-> PyInt(7), revenue |-> PyInt(2)]),
     PyDict([energy |-> PyInt(7)])}

OverviewBodies ==
    {PyDict([overview |-> PyDict(
        [lastUpdateTime |-> Day1, lifeTimeData |-> life,
         lastYearData |-> life, lastMonthData |-> life, lastDayData |-> day,
         currentPower |-> PyDict([power |-> PyInt(1)]),
         measuredBy |-> PyStr("INVERTER")])]) :
        life \in Summaries, day \in Summaries}

ResponseInputs ==
    [response : {"EnergyDataResponse"}, json : EnergyBodies]
    \cup [response : {"InverterResponse"}, json : TelemetryBodies]
    \cup [response : {"StorageDataResponse"}, json : StorageBodies]
    \cup [response : {"OverviewResponse"}, json : OverviewBodies]

InitResponse ==
    /\ today = LoadDay
    /\ Solaredge = RESTClient
    /\ session = [s \in Sessions |-> NoClient]
    /\ last = NoLast
    /\ raw \in ResponseInputs
    /\ result = NotDecoded
    /\ again = NotDecoded
    /\ callers = NoCallers

\* api.response(**json)
DecodeResponse ==
    /\ ~Decoded
    /\ result' = NewFromValue(raw.response, raw.json)
    /\ UNCHANGED <<today, Solaredge, session, last, raw, again, callers>>

NextResponse == DecodeResponse

SpecResponse == InitResponse /\ [][NextResponse]_vars

---------------------------------------------------------------------------
(* Properties.                                                             *)

\* the accessors: the public operations that call an endpoint
AccessorOps ==
    {"get_current_version", "get_supported_versions", "get_sites",
     "get_site_details", "get_data_period", "get_site_overview", "get_energy",
     "get_energy_details", "get_power", "get_power_details", "get_power_flow",
     "get_storage", "get_site_components", "get_site_inventory",
     "get_inverters", "get_env_benefits", "get_timeframe_energy",
     "get_inverter_telemetry"}

\* an accessor has been called and its result not yet taken
AccessorCalled == last.op \in AccessorOps

\* the call ended in an exception
Failed == last.outcome # "returned"

\* a string of enum that is neither the name nor the value of a member
UnknownEnumString(enum, v) ==
    /\ v.k = "str"
    /\ \A i \in DOMAIN ConstantList[enum] :
          /\ ConstantList[enum][i].name # v.s
          /\ ConstantList[enum][i].value # v

\* the value the field of an unknown enum string is to be left with
UnknownEnumValue(enum) == PyEnum(enum, "<unknown>")

\* C1: decoding a record whose enum field holds a string that is neither a
\* name nor a value of the enum does not raise; the field is the unknown-value
\* sentinel and every other field is as it is when the enum string is valid.
C1_UnknownEnumTolerated ==
    LET valid == Construct("Reading", [raw EXCEPT !.unit = PyStr("W")])
    IN  (Decoded /\ UnknownEnumString("Unit", raw.unit) /\ valid.raised = "")
        => /\ result.raised = ""
           /\ result.value.attrs.unit = UnknownEnumValue("Unit")
           /\ \A n \in FieldNames("Reading") \ {"unit"} :
                 result.value.attrs[n] = valid.value.attrs[n]

\* C2: an accessor called while an argument its endpoint declares has no
\* stored value fails and makes no request.
C2_MissingArgumentFails ==
    (AccessorCalled /\ last.missing # {}) => (Failed /\ last.gets = 0)

\* the parameters of the endpoint that have a stored value, in declared order
DefinedParms(api, parameters) ==
    LET HasValue(entry) == parameters[entry] # None
    IN  SelectSeq(api.parms, HasValue)

\* C3: the parameter string of every URL _call_api builds holds exactly the
\* parameters of the endpoint whose stored value is not None, each once, in
\* the order the endpoint declares them, the first after "?" and the others
\* after "&".
C3_QueryHoldsDefinedParms ==
    (last.op = "_call_api" /\ last.url # NoUrl)
    => LET api == APIList[last.arg.s]
           expected == DefinedParms(api, Solaredge.parameters)
           parms == last.url.parms
       IN  /\ Len(parms) = Len(expected)
           /\ \A i \in DOMAIN parms :
                 /\ parms[i].name = expected[i]
                 /\ parms[i].sep = (IF i = 1 THEN "?" ELSE "&")
                 /\ parms[i].value = Fmt(Solaredge.parameters[expected[i]])
           /\ \A i, j \in DOMAIN parms :
                 parms[i].name = parms[j].name => i = j

\* an endpoint of five parameters is called with two of them defined, the
\* first and the fourth
C3_TwoOfFive ==
    /\ last.op = "_call_api"
    /\ last.arg = PyStr("EnergyDetails")
    /\ DefinedParms(APIList.EnergyDetails, Solaredge.parameters)
          = <<"api_key", "timeUnit">>
    /\ last.url.parms
          = <<[sep |-> "?", name |-> "api_key", value |-> PyStr("k1")],
              [sep |-> "&", name |-> "timeUnit", value |-> PyStr("DAY")]>>

\* the answers that are no success of the transport: no answer at all, or a
\* status outside 2xx
TransportFailed(resp) == resp.status # "200"

\* the exceptions _rest_request ends in
TransportErrors == {"SystemExit", "JSONDecodeError"}

\* C4: when the request of an accessor fails in the transport (no
\* connection, timeout, a status outside 2xx), the accessor ends in the
\* transport's exception and the response class is never constructed.
C4_TransportFailureSurfaces ==
    (AccessorCalled /\ last.gets = 1 /\ TransportFailed(last.resp))
    => (last.outcome \in TransportErrors /\ ~last.decoded)

\* the session the last call was made on is in this state
LastSessionIs(state) ==
    /\ last.session \in Sessions
    /\ session[last.session].state = state

C6_ClosedSessionRejects ==
    (AccessorCalled /\ LastSessionIs("Closed")) => (Failed /\ last.gets = 0)

\* C7: a construction, a setter or an accessor of one session leaves the
\* arguments and parameters that the requests of another Ready session are
\* built from as they were.
C7_StoresAreSeparate ==
    [][(/\ last'.op # "idle"
        /\ \E other \in Sessions \ {last'.session} :
              session[other].state = "Ready")
       => Solaredge' = Solaredge]_vars

\* C8: when a construction returns, the time unit is HOUR, the start date
\* the day before the day of the construction and the end date that day.
C8_ConstructionSetsDefaults ==
    (last.op = "__init__" /\ last.outcome = "returned")
    => /\ Solaredge.parameters.timeUnit = PyStr("HOUR")
       /\ Solaredge.parameters.startDate = DateStr(last.day - 1)
       /\ Solaredge.parameters.endDate = DateStr(last.day)

\* a construction has returned having found a site and an inverter
Discovered ==
    /\ last.op = "__init__"
    /\ last.outcome = "returned"
    /\ site_list(last.session) # <<>>
    /\ inverter_list(last.session) # <<>>

\* C9 (as stated): after a construction that found a site and an inverter,
\* the stored site id is that of the first site found and the stored serial
\* number that of the first inverter found.
C9_FirstDiscovered ==
    Discovered
    => /\ Solaredge.arguments.siteid = site_list(last.session)[1]
       /\ Solaredge.arguments.serialnumber = inverter_list(last.session)[1]

\* C9 (amended): after a construction that found a site and an inverter, the
\* stored site id is that of the last site found and the stored serial number
\* that of the last inverter found, in the order of the site list and of each
\* site's inverters.
C9_LastDiscovered ==
    Discovered
    => LET sites == site_list(last.session)
           inverters == inverter_list(last.session)
       IN  /\ Solaredge.arguments.siteid = sites[Len(sites)]
           /\ Solaredge.arguments.serialnumber = inverters[Len(inverters)]

\* a construction found two sites and two inverters: the last differ from
\* the first
C9_SeveralDiscovered ==
    /\ Discovered
    /\ Len(site_list(last.session)) = 2
    /\ Len(inverter_list(last.session)) = 2
    /\ Solaredge.arguments.siteid # site_list(last.session)[1]
    /\ Solaredge.arguments.serialnumber # inverter_list(last.session)[1]

\* the keys that are no key: None and the empty string
NoKey == {None, PyStr("")}

\* C10: a construction with no key (None or the empty string) fails, makes
\* no request and leaves the session short of Ready.
C10_NoKeyRejected ==
    (last.op = "__init__" /\ last.arg \in NoKey)
    => /\ Failed
       /\ last.gets = 0
       /\ session[last.session].state # "Ready"

\* the path of the site list and of the inventory of a site
SitesPath == <<"sites", "list">>

InventoryPath(site) == <<"site", site.s, "inventory">>

\* a construction that passed the check of the key has ended
Constructed == last.op = "__init__" /\ last.outcome # "AssertionError"

\* C11: a construction requests the site list first and then the inventory
\* of one site after the other in the order of the site list, and nothing
\* else; one that found N sites makes 1 + N requests, and the session is
\* Ready only when the last of them has succeeded.
C11_ConstructionRequests ==
    Constructed
    => /\ last.gets = Len(last.requests)
       /\ last.gets >= 1
       /\ last.requests[1].path = SitesPath
       /\ \A i \in 2..Len(last.requests) :
             /\ last.requests[i].path[1] = "site"
             /\ last.requests[i].path[3] = "inventory"
       /\ last.outcome = "returned"
          => /\ last.gets = 1 + Len(site_list(last.session))
             /\ \A i \in DOMAIN site_list(last.session) :
                   last.requests[1 + i].path
                      = InventoryPath(site_list(last.session)[i])
       /\ LastSessionIs("Ready") <=> last.outcome = "returned"

\* a construction found two sites and made its three requests
C11_ThreeRequests ==
    /\ Constructed
    /\ last.outcome = "returned"
    /\ site_list(last.session) = <<PyStr("2"), PyStr("1")>>
    /\ last.requests[2].path = InventoryPath(PyStr("2"))
    /\ last.requests[3].path = InventoryPath(PyStr("1"))

\* C12: a transport that is open belongs to a session its caller holds (and
\* so releases by leaving the with-block or by close): none stays open when
\* the construction that opened it has failed.
C12_TransportReleased ==
    \A s \in Sessions :
        session[s].transport = "open" => session[s].state = "Ready"

\* the request was answered with 200 and a body of the vendor's shape
ServedVendorShape == last.gets = 1 /\ last.resp = Response("200", "vendor")

\* C13: every accessor whose request is answered with a body of the vendor's
\* shape for its endpoint returns (the payload under the envelope field) and
\* never ends in an exception.
C13_VendorShapeReturns ==
    (AccessorCalled /\ ServedVendorShape) => last.outcome = "returned"

\* the names of the replacement fields of the endpoint's template
PlaceholdersOf(api) ==
    {PlaceholderName(seg) : seg \in Range(api.endpoint) \cap Placeholders}

\* C14: for every endpoint of APIList the replacement fields of the template
\* are the arguments the endpoint declares, every one of them an attribute of
\* the stored arguments, so that formatting the template fills every field.
C14_PlaceholdersAreArguments ==
    last.op = "_call_api"
    => LET api == APIList[last.arg.s]
       IN  /\ PlaceholdersOf(api) = Range(api.arguments)
           /\ Range(api.arguments) \subseteq DOMAIN Solaredge.arguments
           /\ last.outcome # "KeyError"

\* C15: once a session is constructed, no operation on it (accessor, setter,
\* close), whatever the server answers, changes what site_list and
\* inverter_list return.
C15_CacheUnchanged ==
    [][\A s \in Sessions :
          session[s].state \in {"Ready", "Closed"}
          => /\ site_list(s)' = site_list(s)
             /\ inverter_list(s)' = inverter_list(s)]_vars

\* get_inverters has returned on a session that holds two sites and two
\* inverters
C15_AfterGetInverters ==
    /\ last.op = "get_inverters"
    /\ last.outcome = "returned"
    /\ LastSessionIs("Ready")
    /\ site_list(last.session) = <<PyStr("1"), PyStr("2")>>
    /\ inverter_list(last.session) = <<PyStr("SN1"), PyStr("SN2")>>

\* a dictionary without the keys that are no field of the class
KnownKeys(cls, v) ==
    IF v.k # "dict" THEN v
    ELSE PyDict([n \in DOMAIN v.map \cap FieldNames(cls) |-> v.map[n]])

\* the keyword arguments of Reading without the keys that are no field, at
\* the top, in the nested record and in the items of the list
WithoutUnknownKeys(kwargs) ==
    [n \in DOMAIN kwargs \cap FieldNames("Reading") |->
        IF n = "phase" THEN KnownKeys("Phase", kwargs[n])
        ELSE IF n = "phases" /\ kwargs[n].k = "list"
        THEN PyList([i \in DOMAIN kwargs[n].items |->
                        KnownKeys("Phase", kwargs[n].items[i])])
        ELSE kwargs[n]]

\* C16: a key that is no field of the class, at any level (the top, a nested
\* record, an item of a list), is dropped: building the record gives what
\* building it without the key gives.
C16_UnknownKeysDropped ==
    (Decoded /\ WithoutUnknownKeys(raw) # raw)
    => result = Construct("Reading", WithoutUnknownKeys(raw))

\* C17: building a record a second time from the same value that a first
\* record was built from succeeds and gives an equal record.
C17_DecodeTwiceEqual ==
    (DecodedAgain /\ result.raised = "") => again = result

\* C18: for every enumeration and every member of it, a field of that
\* enumeration given the member's name, or the member's value, is left with
\* that member.
C18_EnumRoundTrip ==
    Decoded /\ raw \in EnumInputs
    => \A i \in DOMAIN ConstantList[raw.enum] :
          LET member == ConstantList[raw.enum][i]
          IN  (raw.v = PyStr(member.name) \/ raw.v = member.value)
              => result = Converted(PyEnum(raw.enum, member.name))

\* a member has been found by its value, an integer that is no name
C18_FoundByValue ==
    /\ raw = [enum |-> "OperationMode", v |-> PyInt(2)]
    /\ result = Converted(PyEnum("OperationMode", "OFF_GRID_PV_BATTERY"))

\* the fields of Reading that are declared with a primitive type
PrimitiveFields ==
    {i \in DOMAIN Classes.Reading : Classes.Reading[i].type.t = "primitive"}

\* C19: a field declared with a primitive type keeps a value of that kind
\* as it is, and building the record fails when the value is of another
\* kind.
C19_PrimitiveKindChecked ==
    (Decoded /\ raw \in RawReadings)
    => \A i \in PrimitiveFields :
          LET entry == Classes.Reading[i]
              v == raw[entry.name]
          IN  v # None
              => IF v.k = entry.type.kind
                 THEN result.raised = ""
                      => result.value.attrs[entry.name] = v
                 ELSE result.raised # ""

\* C20: in a record that has been built, the field of a nested record is
\* unset when it was given None and an instance of the nested class when it
\* was given a dictionary; it never holds a dictionary.
C20_NestedRecordDecoded ==
    (Decoded /\ raw \in RawReadings /\ result.raised = "")
    => IF raw.phase = None
       THEN result.value.attrs.phase = None
       ELSE /\ result.value.attrs.phase.k = "object"
            /\ result.value.attrs.phase.cls = "Phase"

\* the fields of the class whose declared type is a list, a dictionary
ListFields(cls) ==
    {i \in DOMAIN Classes[cls] : Classes[cls][i].type.t = "list"}

MappingFields(cls) ==
    {i \in DOMAIN Classes[cls] : Classes[cls][i].type.t = "dict"}

\* the list field i of the record built holds as many items as the array it
\* was built from, the j-th being the j-th item of the array decoded as the
\* element type says
SequenceDecoded(cls, i) ==
    LET entry == Classes[cls][i]
        source == raw[entry.name]
        built == result.value.attrs[entry.name]
    IN  source # None =>
            /\ built.k = "list"
            /\ Len(built.items) = Len(source.items)
            /\ \A j \in DOMAIN source.items :
                  built.items[j] =
                      ConvertEntry(entry.type.elem, source.items[j], NoLoop).value

\* C21: a record that is built holds, for every array given for a field of a
\* list type, a list of the same length whose i-th item is the i-th item of
\* the array decoded with the element type; an empty array gives an empty list.
C21_SequenceDecoded ==
    result.raised = "" =>
        \A i \in ListFields("Profile") : SequenceDecoded("Profile", i)

\* C23: a record that is built holds, for every object given for a field of a
\* dictionary type, one entry per entry of the object, the value decoded with
\* the value type, the key being the member of that name if the key type is an
\* Enum and the string itself otherwise.
C23_MappingDecoded ==
    result.raised = "" =>
        \A i \in MappingFields("Profile") :
            LET entry == Classes["Profile"][i]
                source == raw[entry.name]
                built == result.value.attrs[entry.name]
            IN  source # None =>
                    /\ built.k = "mapping"
                    /\ Len(built.entries) = Len(source.entries)
                    /\ \A j \in DOMAIN source.entries :
                          /\ built.entries[j].value =
                                ConvertEntry(entry.type.value,
                                             source.entries[j].value,
                                             NoLoop).value
                          /\ built.entries[j].key =
                                IF entry.type.key.t = "enum"
                                THEN PyEnum(entry.type.key.enum,
                                            source.entries[j].key.s)
                                ELSE source.entries[j].key

\* C25: an array given for the field modes, a list of OperationMode, is
\* decoded whatever its length and whatever the fields before it hold: the
\* decoder does not fail on it, and the record built holds a list of the same
\* length whose items are the members the items of the array name.
C25_EnumSequenceDecoded ==
    (Decoded /\ raw.modes # None) =>
        /\ result.raised \notin {"UnboundLocalError", "IndexError"}
        /\ result.raised = "" =>
              SequenceDecoded("Profile",
                  CHOOSE i \in ListFields("Profile") :
                      Classes["Profile"][i].name = "modes")

\* the record an accessor returns: the attribute of the response it unwraps
Unwrapped(envelope) == result.value.attrs[envelope]

\* C22: get_energy on a sample list: the response is built, a sample whose
\* value is null or is not given has value 0, every other sample keeps its
\* value, every date is the timestamp its string denotes, and timeUnit is the
\* member of TimeUnit the string names.
C22_EnergySamplesDecoded ==
    (Decoded /\ raw.response = "EnergyDataResponse") =>
        /\ result.raised = ""
        /\ LET source == raw.json.map.energy.map
               energy == Unwrapped("energy").attrs
           IN  /\ energy.timeUnit = PyEnum("TimeUnit", source.timeUnit.s)
               /\ Len(energy.values.items) = Len(source.values.items)
               /\ \A j \in DOMAIN source.values.items :
                     LET sample == source.values.items[j].map
                         value == energy.values.items[j].attrs
                     IN  /\ value.date = Timestamps[sample.date.s]
                         /\ value.value =
                               IF "value" \notin DOMAIN sample
                                  \/ sample.value = None
                               THEN PyInt(0) ELSE sample.value

\* the names of the fields of the class statement at the line
FieldsAt(line) ==
    LET cls == ClassStatements[CHOOSE i \in DOMAIN ClassStatements :
                                  ClassStatements[i].line = line]
    IN  {cls.fields[i].name : i \in DOMAIN cls.fields}

\* C26: get_storage and get_site_overview on a body of the vendor's shape:
\* the response is built, every battery of the storage data is a record of
\* the storage battery class (line 660), and the four summaries of the
\* overview are records of the energy/revenue summary class (line 338).
C26_DeclaredSchemaUsed ==
    /\ (Decoded /\ raw.response = "StorageDataResponse") =>
          /\ result.raised = ""
          /\ LET batteries == Unwrapped("storageData").attrs.batteries.items
             IN  \A j \in DOMAIN batteries :
                    /\ batteries[j].k = "object"
                    /\ DOMAIN batteries[j].attrs = FieldsAt(660)
    /\ (Decoded /\ raw.response = "OverviewResponse") =>
          /\ result.raised = ""
          /\ \A n \in {"lifeTimeData", "lastYearData", "lastMonthData",
                       "lastDayData"} :
                /\ Unwrapped("overview").attrs[n].k = "object"
                /\ DOMAIN Unwrapped("overview").attrs[n].attrs = FieldsAt(338)

\* C27: get_inverter_telemetry on an entry with any of the three phases
\* given: the response is built, and each of L1Data, L2Data and L3Data is an
\* LData record if the entry gives it (not null) and is None if it does not.
C27_PhasesIndependent ==
    (Decoded /\ raw.response = "InverterResponse") =>
        /\ result.raised = ""
        /\ LET source == raw.json.map.data.map.telemetries.items[1].map
               entry == Unwrapped("data").attrs.telemetries.items[1].attrs
           IN  \A n \in PhaseNames :
                  IF n \in DOMAIN source /\ source[n] # None
                  THEN /\ entry[n].k = "object"
                       /\ entry[n].cls = "LData"
                  ELSE entry[n] = None

\* the site a URL of a site endpoint is for: the segment after "site"
SiteOf(url) == url.path[2]

\* the request of the caller's last call was made for another site than the
\* one the caller gave
ForAnotherSite(c) ==
    /\ ~callers[c].inside
    /\ callers[c].url # NoUrl
    /\ callers[c].id # None
    /\ SiteOf(callers[c].url) # callers[c].id.s

\* C24: a call of get_energy(id) that no other caller's call overlaps makes
\* its request for the site id it was given.
C24_SerializedCarriesOwnSite ==
    \A c \in Callers : callers[c].alone => ~ForAnotherSite(c)

\* C24: caller 1 assigns its override, caller 2 assigns another, the URL for
\* caller 1 is built: the request of caller 1 is for the site of caller 2.
C24_RequestForOtherSite ==
    /\ ForAnotherSite(1)
    /\ callers[2].inside
    /\ SiteOf(callers[1].url) = callers[2].id.s

\* the accessors that take a site id
SiteOps ==
    {"get_site_details", "get_data_period", "get_site_overview", "get_energy",
     "get_energy_details", "get_power", "get_power_details", "get_power_flow",
     "get_storage", "get_site_components", "get_site_inventory",
     "get_inverters", "get_env_benefits", "get_timeframe_energy"}

\* the value an accessor called with this override works with
Effective(arg, stored) == IF arg # None THEN arg ELSE stored

\* C28: an accessor that takes a site id (or a serial) stores its override
\* before it builds the request: the URL it requests holds the override, or
\* the stored value if it was given none, and so does the store afterwards,
\* whatever the outcome of the call; the stored site id and serial change in
\* no other step but a construction.
C28_OverrideStoredAndUsed ==
    [][/\ (Idle /\ last'.op \in SiteOps) =>
              LET site == Effective(last'.arg, Solaredge.arguments.siteid)
              IN  /\ Solaredge'.arguments.siteid = site
                  /\ last'.gets = 1 => SiteOf(last'.url) = Fmt(site).s
       /\ (Idle /\ last'.op = "get_inverter_telemetry") =>
              LET serial == Effective(last'.arg,
                                      Solaredge.arguments.serialnumber)
              IN  /\ Solaredge'.arguments.serialnumber = serial
                  /\ last'.gets = 1 => last'.url.path[3] = Fmt(serial).s
       /\ Solaredge'.arguments # Solaredge.arguments =>
              \/ last'.op = "__init__"
              \/ /\ last'.op \in SiteOps \cup {"get_inverter_telemetry"}
                 /\ last'.arg # None]_vars

\* C28: on a client that has discovered the one site "1", an accessor called
\* without an override has made its request for site "2": the override of an
\* earlier call.
C28_EarlierOverrideUsed ==
    /\ last.op \in SiteOps
    /\ last.arg = None
    /\ last.gets = 1
    /\ session[1].sites = <<PyStr("1")>>
    /\ SiteOf(last.url) = "2"

\* the fields of the parameters a setter assigns
OwnFields(op) ==
    CASE op = "set_dates" -> {"startDate", "endDate"}
      [] op = "set_datetimes" -> {"startTime", "endTime"}
      [] op = "set_time_unit" -> {"timeUnit"}

\* C29: a setter makes no request and changes nothing but its own fields of
\* the parameters: the arguments (site id, serial), the API key, the other
\* parameters and the sites and inventories of the sessions stay as they
\* are; an accessor changes no parameter, and nothing else of the store
\* either if it is given no override.
C29_SettersChangeOwnFields ==
    [][/\ (Idle /\ last'.op \in {"set_dates", "set_datetimes",
                                 "set_time_unit"}) =>
              /\ last'.gets = 0
              /\ session' = session
              /\ Solaredge'.url = Solaredge.url
              /\ Solaredge'.arguments = Solaredge.arguments
              /\ \A n \in DOMAIN Solaredge.parameters \ OwnFields(last'.op) :
                    Solaredge'.parameters[n] = Solaredge.parameters[n]
       /\ (Idle /\ last'.op \in {"get_energy", "get_inverter_telemetry"}) =>
              /\ Solaredge'.parameters = Solaredge.parameters
              /\ last'.arg = None => Solaredge' = Solaredge]_vars

\* C29: set_dates has moved the start date off its default and a request has
\* been made since with the dates it set
C29_DatesSet ==
    /\ last.op = "get_energy"
    /\ last.gets = 1
    /\ Solaredge.parameters.startDate # APIParameters.startDate
    /\ Solaredge.parameters.startTime = APIParameters.startTime
====
